---- MODULE Spec2Model ----
(***************************************************************************)
(* Media asset store of arthur/media_db.py (class MediaDatabase) and its   *)
(* request/response boundary arthur/media_api.py.                          *)
(*                                                                         *)
(* The assets relation is a sequence of rows in insertion order.  Python   *)
(* None / a null column is the string "None".  File names are records      *)
(* [stem, suffix] (pathlib's Path.name and Path.suffix), the suffix spelt  *)
(* as its characters.  Asset ids are the naturals 1, 2, ... in the order   *)
(* uuid.uuid4() issued them; 0 is an id that was never issued.             *)
(***************************************************************************)
EXTENDS Integers, Sequences, FiniteSets, TLC

VARIABLES
  assets,      \* rows of the "assets" table (self.assets_table)
  uuid_count,  \* number of ids uuid.uuid4() has issued so far
  pending,     \* per caller: the assign_to_episode call it is inside, if any
  last,        \* the call that completed last: operation, arguments, outcome
  table_names, \* names of the tables present at db_path (db.table_names())
  backup,      \* the backup destination: <<>> when it does not exist, else
               \* <<the copy of the database directory>>
  projects,    \* rows of the "projects" table (self.projects_table)
  inst,        \* per MediaDatabase instance: how far its _init_tables has
               \* got, and the table names it read at line 115
  db_exists,   \* whether the directory db_path exists
  importing    \* the import_directory call under way: the entries glob
               \* yields, the next one, and the locals count and the log

vars == <<assets, uuid_count, pending, last, table_names, backup, projects,
          inst, db_exists, importing>>

\* None for a bytes / text value.
None == "None"

\* An Optional[int] is a sequence of length at most one: <<>> is None.
NoInt == <<>>
Some(x) == <<x>>
IsSome(o) == o # <<>>
Val(o) == o[1]

\* A directory that does not exist is <<>>; one that exists is <<content>>.
NoDir == <<>>

\* ------------------------------------------------------------------ bounds
MaxAssets == 2

\* The longest directory listing import_directory is given.
MaxDirFiles == 2

\* The ids a caller may name: the ones that can have been issued, and id 0.
IdInputs == 0..MaxAssets

Callers == {1, 2}

\* ------------------------------------------------------------------ inputs
RatingInputs == {0, 7, 11}
NoteInputs == {None, "sharp"}
EpisodeInputs == {1, 9}
ConcEpisodeInputs == {1, 2}

\* quality_rating / episode_assignments a caller may hand to an ingestion
AddRatingInputs == {NoInt, Some(11)}
\* <<>> stands for both None and [] ("episode_assignments or []")
AddEpisodeInputs == {<<>>, <<1, 1>>, <<9>>}

PngName == [stem |-> "hero", suffix |-> <<".", "p", "n", "g">>]
Mp4Name == [stem |-> "clip", suffix |-> <<".", "m", "p", "4">>]
NoSuffixName == [stem |-> "upload", suffix |-> <<>>]

\* A path on disk: its name, whether it exists, and its bytes.
ImageFileInputs ==
  { [name |-> PngName, exists |-> TRUE, bytes |-> "PNG_hero"],
    [name |-> PngName, exists |-> TRUE, bytes |-> "garbage"],
    [name |-> PngName, exists |-> FALSE, bytes |-> None] }

\* A second image, with other bytes under another name.
JpgName == [stem |-> "logo", suffix |-> <<".", "j", "p", "g">>]
JpgFile == [name |-> JpgName, exists |-> TRUE, bytes |-> "JPG_logo"]

VideoFileInputs ==
  { [name |-> Mp4Name, exists |-> TRUE, bytes |-> "MP4_clip"],
    [name |-> Mp4Name, exists |-> FALSE, bytes |-> None] }

\* What path.glob yields for a directory: per entry the path, whether it is
\* a regular file, and what ffmpeg and CLIP will answer when asked about it.
TxtName == [stem |-> "notes", suffix |-> <<".", "t", "x", "t">>]
UpperMp4Name == [stem |-> "clip", suffix |-> <<".", "M", "P", "4">>]
UpperJpgName == [stem |-> "logo", suffix |-> <<".", "J", "P", "G">>]
DirEntryInputs ==
  { [file |-> [name |-> PngName, exists |-> TRUE, bytes |-> "PNG_hero"],
     is_file |-> TRUE, thumb |-> None, clip_ok |-> TRUE],
    [file |-> [name |-> PngName, exists |-> TRUE, bytes |-> "garbage"],
     is_file |-> TRUE, thumb |-> None, clip_ok |-> TRUE],
    [file |-> [name |-> UpperJpgName, exists |-> TRUE, bytes |-> "JPG_logo"],
     is_file |-> TRUE, thumb |-> None, clip_ok |-> TRUE],
    [file |-> [name |-> UpperMp4Name, exists |-> TRUE, bytes |-> "MP4_clip"],
     is_file |-> TRUE, thumb |-> None, clip_ok |-> TRUE],
    [file |-> [name |-> Mp4Name, exists |-> TRUE, bytes |-> "MP4_clip"],
     is_file |-> TRUE, thumb |-> "JPG_frame", clip_ok |-> FALSE],
    [file |-> [name |-> TxtName, exists |-> TRUE, bytes |-> "text"],
     is_file |-> TRUE, thumb |-> None, clip_ok |-> TRUE],
    [file |-> [name |-> PngName, exists |-> TRUE, bytes |-> None],
     is_file |-> FALSE, thumb |-> None, clip_ok |-> TRUE] }

\* A directory path: whether it exists, and its entries in glob order.
DirInputs ==
  { [exists |-> FALSE, files |-> <<>>] } \cup
  { [exists |-> TRUE, files |-> fs] :
      fs \in UNION { [1..n -> DirEntryInputs] : n \in 0..MaxDirFiles } }

\* Base64 payloads of the API boundary: <<"b64", x>> encodes the bytes x, and
\* <<"malformed">> is a string base64.b64decode rejects.
ImagePayloadInputs == { <<"b64", "PNG_hero">>, <<"malformed">> }
VideoPayloadInputs == { <<"b64", "MP4_clip">>, <<"malformed">> }

\* What _extract_video_thumbnail returns for a video: None when ffmpeg
\* fails, the frame, or the empty temporary file read back when ffmpeg exits
\* with 0 without having written a frame (a clip shorter than the one-second
\* offset).
ThumbnailOutcomes == {None, "", "JPG_frame"}

FrameOutcomes == ThumbnailOutcomes

\* ------------------------------------------------------------- sequences
InSeq(x, s) == \E i \in 1..Len(s) : s[i] = x

RECURSIVE Count(_, _)
Count(x, s) ==
  IF s = <<>> THEN 0
  ELSE (IF Head(s) = x THEN 1 ELSE 0) + Count(x, Tail(s))

\* ------------------------------------------------------------ table store
\* assets_table.add([row])
\* an add with mode="overwrite"
TableAdd_overwrite(tbl, row) == <<row>>
TableAdd(tbl, row) == Append(tbl, row)

\* an update whose where clause selects every row
TableUpdate_every_row(tbl, asset_id, vals) ==
  [i \in 1..Len(tbl) |->
     [f \in DOMAIN tbl[i] |-> IF f \in DOMAIN vals THEN vals[f] ELSE tbl[i][f]]]

\* assets_table.update(where="id = '<asset_id>'", values=vals)
TableUpdate(tbl, asset_id, vals) ==
  [i \in 1..Len(tbl) |->
     IF tbl[i].id = asset_id
       THEN [f \in DOMAIN tbl[i] |->
               IF f \in DOMAIN vals THEN vals[f] ELSE tbl[i][f]]
       ELSE tbl[i]]

\* assets_table.search().where("id = '<asset_id>'").limit(1).to_pandas()
SearchById(tbl, asset_id) ==
  LET hits == SelectSeq(tbl, LAMBDA r : r.id = asset_id)
  IN IF Len(hits) > 1 THEN SubSeq(hits, 1, 1) ELSE hits

\* --------------------------------------------- schema initialisation
\* _init_tables, lines 111-170, on the table named "assets": a table absent
\* from db.table_names() is created empty with mode="overwrite", a present
\* one is opened with its rows.
init_tables_always_create(existing_tables, tbl) ==
  <<>>
init_tables(existing_tables, tbl) ==
  IF "assets" \notin existing_tables THEN <<>> ELSE tbl

\* The tables present once _init_tables has run.
\* _init_tables, lines 154-170: the projects table is created empty when
\* its name is not among the existing tables, else opened as it is.
init_projects(existing_tables, tbl) ==
  IF "projects" \notin existing_tables THEN <<>> ELSE tbl

init_table_names(existing_tables) ==
  existing_tables \cup {"assets", "projects"}

\* ------------------------------------------------------------- collaborators
\* an id generator that repeats itself
uuid4_repeating(issued) == 1

\* uuid.uuid4(): an id that was never issued before
uuid4(issued) == issued + 1

\* _get_image_embedding: the unit-norm CLIP vector of an image
ClipEmbedding(image_bytes) == <<"clip", image_bytes>>

\* [0.0] * 512
ZeroEmbedding == <<"zero">>

\* PIL's Image.open succeeds on these bytes
PilDecodes(bytes) == bytes \in {"PNG_hero", "JPG_logo", "JPG_frame"}

\* base64.b64decode: the bytes, or None when it raises
B64Decode(payload) == IF payload[1] = "b64" THEN payload[2] ELSE None

\* a test for None in place of truthiness
Truthy_is_not_none(b) == b # None

\* Python truthiness of an Optional[bytes]
Truthy(b) == b # None /\ b # ""

\* --------------------------------------------------------------- ingestion
\* The outcome of a store operation: the table after it, what it returned or
\* raised, the id it returned, and how many uuids it drew.
Outcome(tbl, result, id, drew) ==
  [tbl |-> tbl, result |-> result, id |-> id, drew |-> drew]

\* add_image without the test that the path exists
add_image_unchecked_path(tbl, issued, file, clip_ok, quality_rating, episode_assignments) ==
  IF ~PilDecodes(file.bytes) THEN Outcome(tbl, "UnidentifiedImageError", NoInt, 0)
  ELSE IF ~clip_ok THEN Outcome(tbl, "EmbeddingError", NoInt, 0)
  ELSE
    LET asset_id == uuid4(issued)
        asset_data ==
          [ id |-> asset_id,
            filename |-> file.name,
            image |-> file.bytes,
            video |-> None,
            thumbnail |-> None,
            vector |-> ClipEmbedding(file.bytes),
            media_type |-> "image",
            quality_rating |-> quality_rating,
            quality_notes |-> None,
            episode_assignments |-> episode_assignments ]
    IN Outcome(TableAdd(tbl, asset_data), "ok", Some(asset_id), 1)
add_image(tbl, issued, file, clip_ok, quality_rating, episode_assignments) ==
  IF ~file.exists THEN Outcome(tbl, "FileNotFoundError", NoInt, 0)
  ELSE IF ~PilDecodes(file.bytes) THEN Outcome(tbl, "UnidentifiedImageError", NoInt, 0)
  ELSE IF ~clip_ok THEN Outcome(tbl, "EmbeddingError", NoInt, 0)
  ELSE
    LET asset_id == uuid4(issued)
        asset_data ==
          [ id |-> asset_id,
            filename |-> file.name,
            image |-> file.bytes,
            video |-> None,
            thumbnail |-> None,
            vector |-> ClipEmbedding(file.bytes),
            media_type |-> "image",
            quality_rating |-> quality_rating,
            quality_notes |-> None,
            episode_assignments |-> episode_assignments ]
    IN Outcome(TableAdd(tbl, asset_data), "ok", Some(asset_id), 1)

\* add_video storing the extracted frame in the image column
add_video_frame_as_image(tbl, issued, file, thumbnail_bytes, clip_ok, quality_rating, episode_assignments) ==
  IF ~file.exists THEN Outcome(tbl, "FileNotFoundError", NoInt, 0)
  ELSE IF Truthy(thumbnail_bytes) /\ ~clip_ok
    THEN Outcome(tbl, "EmbeddingError", NoInt, 0)
  ELSE
    LET asset_id == uuid4(issued)
        asset_data ==
          [ id |-> asset_id,
            filename |-> file.name,
            image |-> thumbnail_bytes,
            video |-> file.bytes,
            thumbnail |-> thumbnail_bytes,
            vector |-> IF Truthy(thumbnail_bytes)
                         THEN ClipEmbedding(thumbnail_bytes)
                         ELSE ZeroEmbedding,
            media_type |-> "video",
            quality_rating |-> quality_rating,
            quality_notes |-> None,
            episode_assignments |-> episode_assignments ]
    IN Outcome(TableAdd(tbl, asset_data), "ok", Some(asset_id), 1)

add_video(tbl, issued, file, thumbnail_bytes, clip_ok, quality_rating, episode_assignments) ==
  IF ~file.exists THEN Outcome(tbl, "FileNotFoundError", NoInt, 0)
  ELSE IF Truthy(thumbnail_bytes) /\ ~clip_ok
    THEN Outcome(tbl, "EmbeddingError", NoInt, 0)
  ELSE
    LET asset_id == uuid4(issued)
        embedding == IF Truthy(thumbnail_bytes)
                       THEN ClipEmbedding(thumbnail_bytes)
                       ELSE ZeroEmbedding
        asset_data ==
          [ id |-> asset_id,
            filename |-> file.name,
            image |-> None,
            video |-> file.bytes,
            thumbnail |-> thumbnail_bytes,
            vector |-> embedding,
            media_type |-> "video",
            quality_rating |-> quality_rating,
            quality_notes |-> None,
            episode_assignments |-> episode_assignments ]
    IN Outcome(TableAdd(tbl, asset_data), "ok", Some(asset_id), 1)

\* ---------------------------------------------------------------- mutation
\* rate_asset without its range check
rate_asset_unchecked(tbl, asset_id, rating, notes) ==
  Outcome(TableUpdate(tbl, asset_id,
                      [quality_rating |-> Some(rating),
                       quality_notes |-> notes]),
          "ok", NoInt, 0)

rate_asset(tbl, asset_id, rating, notes) ==
  IF ~(1 <= rating /\ rating <= 10)
    THEN Outcome(tbl, "ValueError: Rating must be between 1 and 10", NoInt, 0)
    ELSE Outcome(TableUpdate(tbl, asset_id,
                             [quality_rating |-> Some(rating),
                              quality_notes |-> notes]),
                 "ok", NoInt, 0)

\* the cell delivered as a Python list, on which append works
ndarray_append_as_list(current, episode) ==
  [raised |-> FALSE, value |-> Append(current, episode)]

\* result.iloc[0]['episode_assignments'] (line 544) is the cell of a list
\* column as to_pandas() delivers it: a numpy ndarray.  "episode not in
\* current" works on it; current.append (line 546) raises AttributeError,
\* an ndarray has no append.
ndarray_append(current, episode) == [raised |-> TRUE, value |-> current]

\* The write half of assign_to_episode, lines 545-550: "current" is the list
\* the read half fetched.  The update runs only when the append returned.
assign_write(tbl, asset_id, current, episode) ==
  IF ~InSeq(episode, current)
    THEN LET appended == ndarray_append(current, episode)
         IN IF appended.raised
              THEN Outcome(tbl, "AttributeError", NoInt, 0)
              ELSE Outcome(TableUpdate(tbl, asset_id,
                                       [episode_assignments |-> appended.value]),
                           "ok", NoInt, 0)
    ELSE Outcome(tbl, "ok", NoInt, 0)

\* assign_to_episode without the test for an empty search result
assign_to_episode_unchecked(tbl, asset_id, episode) ==
  LET result == SearchById(tbl, asset_id)
  IN assign_write(tbl, asset_id,
                  IF Len(result) = 0 THEN <<>>
                  ELSE result[1].episode_assignments, episode)

\* assign_to_episode run without interruption
assign_to_episode(tbl, asset_id, episode) ==
  LET result == SearchById(tbl, asset_id)
  IN IF Len(result) = 0
       THEN Outcome(tbl, "ValueError: Asset not found", NoInt, 0)
       ELSE assign_write(tbl, asset_id, result[1].episode_assignments, episode)

\* ------------------------------------------------------------- aggregation
\* stats counting as videos the rows that carry a thumbnail
stats_by_thumbnail(tbl) ==
  LET rated == SelectSeq(tbl, LAMBDA r : IsSome(r.quality_rating))
  IN [total_assets |-> Len(tbl),
      images |-> Len(SelectSeq(tbl, LAMBDA r : r.media_type = "image")),
      videos |-> Len(SelectSeq(tbl, LAMBDA r : r.thumbnail # None)),
      rated_count |-> Len(rated),
      unrated_count |-> Len(tbl) - Len(rated)]

stats(tbl) ==
  IF Len(tbl) = 0
    THEN [total_assets |-> 0, images |-> 0, videos |-> 0,
          rated_count |-> 0, unrated_count |-> 0]
    ELSE
      LET rated == SelectSeq(tbl, LAMBDA r : IsSome(r.quality_rating))
      IN [total_assets |-> Len(tbl),
          images |-> Len(SelectSeq(tbl, LAMBDA r : r.media_type = "image")),
          videos |-> Len(SelectSeq(tbl, LAMBDA r : r.media_type = "video")),
          rated_count |-> Len(rated),
          unrated_count |-> Len(tbl) - Len(rated)]

\* ------------------------------------------------------------ bulk import
image_extensions ==
  {<<".", "p", "n", "g">>,
   <<".", "j", "p", "g">>,
   <<".", "j", "p", "e", "g">>,
   <<".", "w", "e", "b", "p">>,
   <<".", "g", "i", "f">>}
video_extensions ==
  {<<".", "m", "p", "4">>,
   <<".", "m", "o", "v">>,
   <<".", "w", "e", "b", "m">>,
   <<".", "a", "v", "i">>}

\* str.lower() on one character.  The characters of the model are those of
\* Latin-1 (U+0020 to U+00FF): the cased capitals among them are A-Z and
\* U+00C0 to U+00DE without the multiplication sign, each mapped to one small
\* letter; every other character of the range is left as it is.
LowerLetters ==
  "A" :> "a" @@ "B" :> "b" @@ "C" :> "c" @@ "D" :> "d" @@ "E" :> "e" @@ "F" :> "f" @@
     "G" :> "g" @@ "H" :> "h" @@ "I" :> "i" @@ "J" :> "j" @@ "K" :> "k" @@ "L" :> "l" @@
     "M" :> "m" @@ "N" :> "n" @@ "O" :> "o" @@ "P" :> "p" @@ "Q" :> "q" @@ "R" :> "r" @@
     "S" :> "s" @@ "T" :> "t" @@ "U" :> "u" @@ "V" :> "v" @@ "W" :> "w" @@ "X" :> "x" @@
     "Y" :> "y" @@ "Z" :> "z" @@ "À" :> "à" @@ "Á" :> "á" @@ "Â" :> "â" @@ "Ã" :> "ã" @@
     "Ä" :> "ä" @@ "Å" :> "å" @@ "Æ" :> "æ" @@ "Ç" :> "ç" @@ "È" :> "è" @@ "É" :> "é" @@
     "Ê" :> "ê" @@ "Ë" :> "ë" @@ "Ì" :> "ì" @@ "Í" :> "í" @@ "Î" :> "î" @@ "Ï" :> "ï" @@
     "Ð" :> "ð" @@ "Ñ" :> "ñ" @@ "Ò" :> "ò" @@ "Ó" :> "ó" @@ "Ô" :> "ô" @@ "Õ" :> "õ" @@
     "Ö" :> "ö" @@ "Ø" :> "ø" @@ "Ù" :> "ù" @@ "Ú" :> "ú" @@ "Û" :> "û" @@ "Ü" :> "ü" @@
     "Ý" :> "ý" @@ "Þ" :> "þ"

LowerChar(ch) == IF ch \in DOMAIN LowerLetters THEN LowerLetters[ch] ELSE ch

\* str.lower() on a file suffix
Lower(suffix) == [k \in DOMAIN suffix |-> LowerChar(suffix[k])]

\* import_directory, lines 630-654: the body of the loop for one entry.
\* counted is what the entry adds to count, log the error logged (if any).
ImportStep(tbl, issued, counted, log) ==
  [tbl |-> tbl, issued |-> issued, counted |-> counted, log |-> log]

\* count raised before the ingestion is attempted
import_one_counts_attempts(tbl, issued, entry) ==
  IF ~entry.is_file THEN ImportStep(tbl, issued, 0, <<>>)
  ELSE
    LET suffix == Lower(entry.file.name.suffix)
        out == IF suffix \in image_extensions
                 THEN add_image(tbl, issued, entry.file, entry.clip_ok,
                                NoInt, <<>>)
                 ELSE add_video(tbl, issued, entry.file, entry.thumb,
                                entry.clip_ok, NoInt, <<>>)
    IN IF suffix \notin image_extensions \cup video_extensions
         THEN ImportStep(tbl, issued, 0, <<>>)
       ELSE IF out.result = "ok"
         THEN ImportStep(out.tbl, issued + out.drew, 1, <<>>)
       ELSE ImportStep(out.tbl, issued + out.drew, 1, <<out.result>>)
import_one(tbl, issued, entry) ==
  IF ~entry.is_file THEN ImportStep(tbl, issued, 0, <<>>)
  ELSE
    LET suffix == Lower(entry.file.name.suffix)
        out == IF suffix \in image_extensions
                 THEN add_image(tbl, issued, entry.file, entry.clip_ok,
                                NoInt, <<>>)
                 ELSE add_video(tbl, issued, entry.file, entry.thumb,
                                entry.clip_ok, NoInt, <<>>)
    IN IF suffix \notin image_extensions \cup video_extensions
         THEN ImportStep(tbl, issued, 0, <<>>)
       ELSE IF out.result = "ok"
         THEN ImportStep(out.tbl, issued + out.drew, 1, <<>>)
       ELSE ImportStep(out.tbl, issued + out.drew, 0, <<out.result>>)

\* The loop of lines 629-654 over the entries glob yields.
RECURSIVE import_files(_, _, _, _, _)
import_files(tbl, issued, files, count, log) ==
  IF files = <<>>
    THEN [tbl |-> tbl, issued |-> issued, result |-> "ok",
          count |-> Some(count), log |-> log]
    ELSE LET step == import_one(tbl, issued, Head(files))
         IN import_files(step.tbl, step.issued, Tail(files),
                         count + step.counted, log \o step.log)

\* import_directory, lines 596-657: the table and the uuid count after the
\* call, what it returned (count) or raised, and the errors it logged.
import_directory(tbl, issued, dir) ==
  IF ~dir.exists
    THEN [tbl |-> tbl, issued |-> issued, result |-> "FileNotFoundError",
          count |-> NoInt, log |-> <<>>]
    ELSE import_files(tbl, issued, dir.files, 0, <<>>)

\* ------------------------------------------------------------------ reads
\* get_asset, lines 553-560: <<the first row whose id matches>>, or <<>> for
\* None.
get_asset(tbl, asset_id) ==
  LET result == SearchById(tbl, asset_id)
  IN IF Len(result) > 0 THEN <<result[1]>> ELSE <<>>

\* export_asset, lines 572-594: what the call returned or raised, and the
\* bytes it wrote to output_path (None when it wrote nothing).
export_asset_thumbnail(tbl, asset_id) ==
  LET asset == get_asset(tbl, asset_id)
  IN IF asset = <<>>
       THEN [result |-> "ValueError: Asset not found", written |-> None]
       ELSE LET content == asset[1].thumbnail
            IN IF content = None
                 THEN [result |-> "ValueError: no content", written |-> None]
                 ELSE [result |-> "ok", written |-> content]
export_asset(tbl, asset_id) ==
  LET asset == get_asset(tbl, asset_id)
  IN IF asset = <<>>
       THEN [result |-> "ValueError: Asset not found", written |-> None]
       ELSE LET content == IF asset[1].media_type = "image"
                             THEN asset[1].image ELSE asset[1].video
            IN IF content = None
                 THEN [result |-> "ValueError: no content", written |-> None]
                 ELSE [result |-> "ok", written |-> content]

\* ----------------------------------------------------------------- backup
\* backup_to_beta, lines 699-724.  src and dest are directories (NoDir when
\* absent); whatever was at dest is removed and src is copied there.
backup_to_beta_unchecked(src, dest) == [dest |-> src, result |-> "ok"]

backup_to_beta(src, dest) ==
  IF src = NoDir THEN [dest |-> dest, result |-> "FileNotFoundError"]
  ELSE [dest |-> src, result |-> "ok"]

\* POST /backup, media_api.py:438-447: whatever backup_to_beta raises is
\* answered with a 500.
api_backup_to_beta(src, dest) ==
  LET out == backup_to_beta(src, dest)
  IN IF out.result = "ok" THEN out
     ELSE [dest |-> out.dest, result |-> "HTTP500"]

\* The database directory at db_path: its tables.
DbDir ==
  IF db_exists
  THEN <<[table_names |-> table_names, assets |-> assets,
          projects |-> projects]>>
  ELSE NoDir

\* ------------------------------------------------------------ API boundary
\* "except ValueError" in a handler
IsValueError(result) ==
  result \in {"ValueError: Rating must be between 1 and 10",
              "ValueError: Asset not found"}

\* An exception the handler does not catch leaves the server as a 500.
Uncaught(out) ==
  IF out.result = "ok" THEN out ELSE Outcome(out.tbl, "HTTP500", NoInt, out.drew)

\* POST /asset/rate
api_rate_asset(tbl, asset_id, rating, notes) ==
  IF ~(1 <= rating /\ rating <= 10)
    THEN Outcome(tbl, "HTTP400", NoInt, 0)
    ELSE LET out == rate_asset(tbl, asset_id, rating, notes)
         IN IF IsValueError(out.result)
              THEN Outcome(out.tbl, "HTTP404", NoInt, 0)
              ELSE out

\* POST /asset/assign-episode
api_assign_episode(tbl, asset_id, episode) ==
  IF ~(1 <= episode /\ episode <= 8)
    THEN Outcome(tbl, "HTTP400", NoInt, 0)
    ELSE LET out == assign_to_episode(tbl, asset_id, episode)
         IN IF IsValueError(out.result)
              THEN Outcome(out.tbl, "HTTP404", NoInt, 0)
              ELSE Uncaught(out)

\* tempfile.NamedTemporaryFile(suffix=Path(filename).suffix or default)
TempFile(filename, default_suffix, bytes) ==
  [name |-> [stem |-> "tmp",
             suffix |-> IF filename.suffix = <<>> THEN default_suffix
                        ELSE filename.suffix],
   exists |-> TRUE,
   bytes |-> bytes]

\* POST /asset/image
api_add_image(tbl, issued, image_base64, filename, clip_ok, quality_rating, episode_assignments) ==
  LET image_bytes == B64Decode(image_base64)
  IN IF image_bytes = None
       THEN Outcome(tbl, "HTTP400", NoInt, 0)
       ELSE Uncaught(add_image(tbl, issued,
                               TempFile(filename, <<".", "p", "n", "g">>, image_bytes),
                               clip_ok, quality_rating, episode_assignments))

\* POST /asset/video
api_add_video(tbl, issued, video_base64, filename, thumbnail_bytes, clip_ok, quality_rating, episode_assignments) ==
  LET video_bytes == B64Decode(video_base64)
  IN IF video_bytes = None
       THEN Outcome(tbl, "HTTP400", NoInt, 0)
       ELSE Uncaught(add_video(tbl, issued,
                               TempFile(filename, <<".", "m", "p", "4">>, video_bytes),
                               thumbnail_bytes, clip_ok, quality_rating,
                               episode_assignments))

\* ==================================================================== state
\* A caller outside any call; the fields keep what its last call read.
Idle == [pc |-> "idle", id |-> 0, episode |-> 0, current |-> <<>>,
         result |-> "none"]

\* No import_directory call is under way.
NotImporting == [pc |-> "idle", files |-> <<>>, k |-> 1, count |-> 0,
                 log |-> <<>>]

\* The record of a completed call.  "again" says that the call before it was
\* the same successful call (same operation, id and episode).
Call(op, id, rating, notes, episode, result, again) ==
  [op |-> op, id |-> id, rating |-> rating, notes |-> notes,
   episode |-> episode, result |-> result, again |-> again]

SameAsLast(op, id, episode) ==
  /\ last.op = op
  /\ last.id = id
  /\ last.episode = episode
  /\ last.result = "ok"

\* An instance whose constructor has not run, and one whose constructor has
\* returned; seen is the result of db.table_names() at line 115.
NotConstructed == [pc |-> "new", seen |-> {}]
Ready == [pc |-> "ready", seen |-> {}]

Init ==
  /\ table_names = init_table_names({})
  /\ assets = init_tables({}, <<>>)
  /\ projects = init_projects({}, <<>>)
  /\ db_exists = TRUE
  /\ inst = [c \in Callers |-> Ready]
  /\ backup = NoDir
  /\ uuid_count = 0
  /\ pending = [c \in Callers |-> Idle]
  /\ importing = NotImporting
  /\ last = Call("init", NoInt, NoInt, None, NoInt, "ok", FALSE)

\* ------------------------------------------------- calls on MediaDatabase
\* Each call draws its arguments from the sets it is given.
AddImage(Files, Ratings, Episodes) ==
  /\ Len(assets) < MaxAssets
  /\ \E file \in Files, clip_ok \in BOOLEAN, q \in Ratings, eps \in Episodes :
       LET out == add_image(assets, uuid_count, file, clip_ok, q, eps)
       IN /\ assets' = out.tbl
          /\ uuid_count' = uuid_count + out.drew
          /\ last' = Call("add_image", out.id, NoInt, None, NoInt,
                          out.result, FALSE)
  /\ UNCHANGED <<pending, table_names, backup, projects, inst, db_exists,
                 importing>>

AddVideo(Files, Thumbs, Ratings, Episodes) ==
  /\ Len(assets) < MaxAssets
  /\ \E file \in Files, thumb \in Thumbs, clip_ok \in BOOLEAN,
        q \in Ratings, eps \in Episodes :
       LET out == add_video(assets, uuid_count, file, thumb, clip_ok, q, eps)
       IN /\ assets' = out.tbl
          /\ uuid_count' = uuid_count + out.drew
          /\ last' = Call("add_video", out.id, NoInt, None, NoInt,
                          out.result, FALSE)
  /\ UNCHANGED <<pending, table_names, backup, projects, inst, db_exists,
                 importing>>

RateAsset(Ratings, Notes) ==
  /\ \E id \in IdInputs, r \in Ratings, n \in Notes :
       LET out == rate_asset(assets, id, r, n)
       IN /\ assets' = out.tbl
          /\ last' = Call("rate_asset", Some(id), Some(r), n, NoInt,
                          out.result, FALSE)
  /\ UNCHANGED <<uuid_count, pending, table_names, backup, projects, inst, db_exists,
                 importing>>

AssignToEpisode(Episodes) ==
  /\ \E id \in IdInputs, e \in Episodes :
       LET out == assign_to_episode(assets, id, e)
       IN /\ assets' = out.tbl
          /\ last' = Call("assign_to_episode", Some(id), NoInt, None, Some(e),
                          out.result,
                          SameAsLast("assign_to_episode", Some(id), Some(e)))
  /\ UNCHANGED <<uuid_count, pending, table_names, backup, projects, inst, db_exists,
                 importing>>

\* --------------------------------------------------- requests to the API
ApiAddImage ==
  /\ Len(assets) < MaxAssets
  /\ \E payload \in ImagePayloadInputs, filename \in {PngName, NoSuffixName},
        clip_ok \in BOOLEAN, q \in AddRatingInputs,
        eps \in AddEpisodeInputs :
       LET out == api_add_image(assets, uuid_count, payload, filename,
                                clip_ok, q, eps)
       IN /\ assets' = out.tbl
          /\ uuid_count' = uuid_count + out.drew
          /\ last' = Call("api_add_image", out.id, NoInt, None, NoInt,
                          out.result, FALSE)
  /\ UNCHANGED <<pending, table_names, backup, projects, inst, db_exists,
                 importing>>

ApiAddVideo ==
  /\ Len(assets) < MaxAssets
  /\ \E payload \in VideoPayloadInputs, filename \in {Mp4Name, NoSuffixName},
        thumb \in ThumbnailOutcomes, clip_ok \in BOOLEAN,
        q \in AddRatingInputs, eps \in AddEpisodeInputs :
       LET out == api_add_video(assets, uuid_count, payload, filename, thumb,
                                clip_ok, q, eps)
       IN /\ assets' = out.tbl
          /\ uuid_count' = uuid_count + out.drew
          /\ last' = Call("api_add_video", out.id, NoInt, None, NoInt,
                          out.result, FALSE)
  /\ UNCHANGED <<pending, table_names, backup, projects, inst, db_exists,
                 importing>>

ApiRateAsset ==
  /\ \E id \in IdInputs, r \in RatingInputs, n \in NoteInputs :
       LET out == api_rate_asset(assets, id, r, n)
       IN /\ assets' = out.tbl
          /\ last' = Call("api_rate_asset", Some(id), Some(r), n, NoInt,
                          out.result, FALSE)
  /\ UNCHANGED <<uuid_count, pending, table_names, backup, projects, inst, db_exists,
                 importing>>

ApiAssignEpisode ==
  /\ \E id \in IdInputs, e \in EpisodeInputs :
       LET out == api_assign_episode(assets, id, e)
       IN /\ assets' = out.tbl
          /\ last' = Call("api_assign_episode", Some(id), NoInt, None,
                          Some(e), out.result,
                          SameAsLast("api_assign_episode", Some(id), Some(e)))
  /\ UNCHANGED <<uuid_count, pending, table_names, backup, projects, inst, db_exists,
                 importing>>

\* ------------------------------------------------------------ ingestion
\* Ingestion through the store and through the API, with every optional
\* argument a caller may supply.
Next ==
  \/ AddImage(ImageFileInputs, AddRatingInputs, {<<>>, <<1, 1>>})
  \/ AddVideo(VideoFileInputs, ThumbnailOutcomes, AddRatingInputs,
              {<<>>, <<1, 1>>})
  \/ ApiAddImage
  \/ ApiAddVideo

Spec == Init /\ [][Next]_vars

\* --------------------------------------------------- ingestion and rating
NextRate ==
  \/ AddImage(ImageFileInputs, {NoInt}, {<<>>})
  \/ AddVideo(VideoFileInputs, ThumbnailOutcomes, {NoInt}, {<<>>})
  \/ RateAsset(RatingInputs, NoteInputs)
  \/ ApiRateAsset

SpecRate == Init /\ [][NextRate]_vars

\* ----------------------------------------- ingestion and episode assignment
NextAssign ==
  \/ AddImage(ImageFileInputs, {NoInt}, AddEpisodeInputs)
  \/ AddVideo(VideoFileInputs, {"JPG_frame"}, {NoInt}, AddEpisodeInputs)
  \/ AssignToEpisode(EpisodeInputs)
  \/ ApiAssignEpisode

SpecAssign == Init /\ [][NextAssign]_vars

\* -------------------------------------------------- the life of the store
\* MediaDatabase(db_path) constructed again on the same location.
InitTables_overwrite ==
  /\ assets' = <<>>
  /\ table_names' = init_table_names(table_names)
  /\ last' = Call("init", NoInt, NoInt, None, NoInt, "ok", FALSE)
  /\ projects' = <<>>
  /\ db_exists' = TRUE
  /\ UNCHANGED <<uuid_count, pending, backup, inst, importing>>

InitTables ==
  /\ assets' = init_tables(table_names, assets)
  /\ table_names' = init_table_names(table_names)
  /\ last' = Call("init", NoInt, NoInt, None, NoInt, "ok", FALSE)
  /\ projects' = init_projects(table_names, projects)
  /\ db_exists' = TRUE
  /\ UNCHANGED <<uuid_count, pending, backup, inst, importing>>

BackupToBeta ==
  /\ LET out == backup_to_beta(DbDir, backup)
     IN /\ backup' = out.dest
        /\ last' = Call("backup_to_beta", NoInt, NoInt, None, NoInt,
                        out.result, FALSE)
  /\ UNCHANGED <<assets, uuid_count, pending, table_names, projects, inst,
                 db_exists, importing>>

ApiBackupToBeta ==
  /\ LET out == api_backup_to_beta(DbDir, backup)
     IN /\ backup' = out.dest
        /\ last' = Call("api_backup_to_beta", NoInt, NoInt, None, NoInt,
                        out.result, FALSE)
  /\ UNCHANGED <<assets, uuid_count, pending, table_names, projects, inst,
                 db_exists, importing>>

\* A query: get_asset answers with a row ("ok") or with None.
GetAsset ==
  /\ \E id \in IdInputs :
       last' = Call("get_asset", Some(id), NoInt, None, NoInt,
                    IF get_asset(assets, id) = <<>> THEN None ELSE "ok",
                    FALSE)
  /\ UNCHANGED <<assets, uuid_count, pending, table_names, backup, projects, inst, db_exists,
                 importing>>

ExportAsset ==
  /\ \E id \in IdInputs :
       LET out == export_asset(assets, id)
       IN last' = [op |-> "export_asset", id |-> Some(id), rating |-> NoInt,
                   notes |-> None, episode |-> NoInt, result |-> out.result,
                   again |-> FALSE, written |-> out.written]
  /\ UNCHANGED <<assets, uuid_count, pending, table_names, backup, projects, inst, db_exists,
                 importing>>

NextLife ==
  \/ AddImage(ImageFileInputs, {NoInt}, {<<>>})
  \/ AddVideo(VideoFileInputs, {"JPG_frame"}, {NoInt}, {<<>>})
  \/ RateAsset({7}, {"sharp"})
  \/ AssignToEpisode({1})
  \/ InitTables
  \/ BackupToBeta
  \/ GetAsset

SpecLife == Init /\ [][NextLife]_vars

\* ------------------------------------------ ingestion, mutation and export
ExportImageFiles == ImageFileInputs \cup {JpgFile}

NextExport ==
  \/ AddImage(ExportImageFiles, {NoInt}, {<<>>})
  \/ AddVideo(VideoFileInputs, {"JPG_frame"}, {NoInt}, {<<>>})
  \/ RateAsset({7}, {"sharp"})
  \/ AssignToEpisode({1})
  \/ ExportAsset

SpecExport == Init /\ [][NextExport]_vars

\* ------------------------------------------------------------ bulk import
\* import_directory is a loop of ingestions, each of which appends to the
\* table on its own (lines 636 -> 331, 645 -> 431); between two of them the
\* call waits (add_video runs ffmpeg and ffprobe), and the calls of other
\* processes on the same location fall in between.
\* Lines 618-628: the directory is looked up and the loop entered.
ImportBegin ==
  /\ importing.pc = "idle"
  /\ Len(assets) < MaxAssets
  /\ \E dir \in DirInputs :
       IF ~dir.exists
         THEN /\ last' = [op |-> "import_directory", id |-> NoInt,
                         rating |-> NoInt, notes |-> None, episode |-> NoInt,
                         result |-> import_directory(assets, uuid_count,
                                                     dir).result,
                         again |-> FALSE, count |-> NoInt, log |-> <<>>]
              /\ UNCHANGED importing
         ELSE /\ importing' = [pc |-> "loop", files |-> dir.files, k |-> 1,
                               count |-> 0, log |-> <<>>]
              /\ UNCHANGED last
  /\ UNCHANGED <<assets, uuid_count, pending, table_names, backup, projects,
                 inst, db_exists>>

\* Lines 629-654: one turn of the loop.
ImportFile ==
  /\ importing.pc = "loop"
  /\ importing.k <= Len(importing.files)
  /\ LET step == import_one(assets, uuid_count, importing.files[importing.k])
     IN /\ assets' = step.tbl
        /\ uuid_count' = step.issued
        /\ importing' = [importing EXCEPT !.k = @ + 1,
                                          !.count = @ + step.counted,
                                          !.log = @ \o step.log]
  /\ UNCHANGED <<pending, last, table_names, backup, projects, inst,
                 db_exists>>

\* Lines 656-657: glob is exhausted, count is returned.
ImportReturn ==
  /\ importing.pc = "loop"
  /\ importing.k > Len(importing.files)
  /\ last' = [op |-> "import_directory", id |-> NoInt,
              rating |-> NoInt, notes |-> None, episode |-> NoInt,
              result |-> "ok", again |-> FALSE,
              count |-> Some(importing.count), log |-> importing.log]
  /\ importing' = NotImporting
  /\ UNCHANGED <<assets, uuid_count, pending, table_names, backup, projects,
                 inst, db_exists>>

\* The other caller ingests videos of which ffmpeg delivers an empty frame,
\* which no entry of DirEntryInputs does: its records are told from those
\* of the import.
NextImport ==
  \/ AddVideo(VideoFileInputs, {""}, {NoInt}, {<<>>})
  \/ ImportBegin
  \/ ImportFile
  \/ ImportReturn

SpecImport == Init /\ [][NextImport]_vars

\* ------------------------------------- ingestion with failing collaborators
NextVideo ==
  \/ AddImage(ExportImageFiles, AddRatingInputs, {<<>>})
  \/ AddVideo(VideoFileInputs, FrameOutcomes, AddRatingInputs, {<<>>})

SpecVideo == Init /\ [][NextVideo]_vars

\* ------------------------------------- two callers inside assign_to_episode
\* Line 540: the read.  An unknown id ends the call at once.
AssignRead(c) ==
  /\ pending[c].pc = "idle"
  /\ \E id \in IdInputs, e \in ConcEpisodeInputs :
       LET result == SearchById(assets, id)
       IN IF Len(result) = 0
            THEN /\ last' = Call("assign_to_episode", Some(id), NoInt, None,
                                 Some(e), "ValueError: Asset not found", FALSE)
                 /\ pending' = [pending EXCEPT ![c] = Idle]
            ELSE /\ pending' = [pending EXCEPT ![c] =
                                  [pc |-> "read", id |-> id, episode |-> e,
                                   current |-> result[1].episode_assignments,
                                   result |-> "none"]]
                 /\ UNCHANGED last
  /\ UNCHANGED <<assets, uuid_count, table_names, backup, projects, inst, db_exists,
                 importing>>

\* Lines 545-550: the membership test on the list read, and the write.
AssignWrite(c) ==
  /\ pending[c].pc = "read"
  /\ LET out == assign_write(assets, pending[c].id, pending[c].current,
                             pending[c].episode)
     IN /\ assets' = out.tbl
        /\ pending' = [pending EXCEPT ![c].pc = "idle",
                                      ![c].result = out.result]
        /\ last' = Call("assign_to_episode", Some(pending[c].id), NoInt, None,
                        Some(pending[c].episode), out.result, FALSE)
  /\ UNCHANGED <<uuid_count, table_names, backup, projects, inst, db_exists,
                 importing>>

NextConc ==
  \/ AddImage(ImageFileInputs, {NoInt}, {<<>>, <<9>>})
  \/ \E c \in Callers : AssignRead(c)
  \/ \E c \in Callers : AssignWrite(c)

SpecConc == Init /\ [][NextConc]_vars

\* ------------------------------ a rating while a caller is inside an assign
NextMix ==
  \/ AddImage(ImageFileInputs, {NoInt}, {<<>>})
  \/ RateAsset({7}, {"sharp"})
  \/ AssignRead(1)
  \/ AssignWrite(1)

SpecMix == Init /\ [][NextMix]_vars

\* ------------------------------------------- construction on a fresh location
\* The location before any MediaDatabase was constructed on it: no directory,
\* no table.
InitFresh ==
  /\ table_names = {}
  /\ assets = <<>>
  /\ projects = <<>>
  /\ db_exists = FALSE
  /\ inst = [c \in Callers |-> NotConstructed]
  /\ backup = NoDir
  /\ uuid_count = 0
  /\ pending = [c \in Callers |-> Idle]
  /\ importing = NotImporting
  /\ last = Call("none", NoInt, NoInt, None, NoInt, "ok", FALSE)

\* A MediaDatabase exists only once a constructor has returned.
Constructed == {"assets", "projects"} \subseteq table_names

\* Ingestion needs the tables, and the model stops issuing ids at MaxAssets.
CanIngest == Constructed /\ uuid_count < MaxAssets

NextInit ==
  \/ InitTables
  \/ CanIngest /\ AddImage(ImageFileInputs, AddRatingInputs, AddEpisodeInputs)
  \/ CanIngest /\ AddVideo(VideoFileInputs, ThumbnailOutcomes, {NoInt}, {<<>>})
  \/ Constructed /\ RateAsset({7}, {"sharp"})

SpecInit == InitFresh /\ [][NextInit]_vars

\* ------------------------------------------------------------ vector search
\* CLIP places images and texts in one space; the model gives each content a
\* position on a line, and the zero fallback vector a fixed distance from
\* every query.  Two different image contents never share a position.
Position(content) ==
  CASE content = "PNG_hero" -> 1
    [] content = "hero shot" -> 2
    [] content = "JPG_logo" -> 3
    [] content = "JPG_frame" -> 4
    [] OTHER -> 6

ZeroDistance == 2

Abs(x) == IF x < 0 THEN 0 - x ELSE x

\* _get_text_embedding, lines 209-223: the normalised CLIP text embedding.
TextEmbedding(text) == <<"clip", text>>

\* The _distance column of a search hit.
Distance(query, vector) ==
  IF vector = ZeroEmbedding
  THEN ZeroDistance
  ELSE Abs(Position(query[2]) - Position(vector[2]))

\* The orders in which a nearest-neighbour search may rank the rows in S:
\* ascending distance, rows at equal distance in either order.
Ranked(tbl, query, S) ==
  LET n == Cardinality(S)
  IN { r \in [1..n -> S] :
         /\ \A i, j \in 1..n : i # j => r[i] # r[j]
         /\ \A i \in 1..(n - 1) :
              Distance(query, tbl[r[i]].vector)
                <= Distance(query, tbl[r[i + 1]].vector) }

Prefix(s, k) == SubSeq(s, 1, IF Len(s) < k THEN Len(s) ELSE k)

\* search(embedding).limit(limit).where(...).to_pandas(): the hits, as row
\* numbers.  LanceDB applies the where clause after the limit (post-filter)
\* or before it (pre-filter), depending on its version; kept is the set of
\* rows that satisfy the clause.
vector_search_unordered(tbl, query, limit, kept) ==
  { Prefix(r, limit) : r \in { s \in [1..Cardinality(kept) -> kept] :
      \A i, j \in 1..Cardinality(kept) : i # j => s[i] # s[j] } }

vector_search(tbl, query, limit, kept) ==
  { Prefix(r, limit) : r \in Ranked(tbl, query, kept) }
    \cup { SelectSeq(Prefix(r, limit), LAMBDA i : i \in kept) :
             r \in Ranked(tbl, query, DOMAIN tbl) }

\* to_pandas(): per hit the record's id and its _distance.
Hits(tbl, query, rows) ==
  [k \in DOMAIN rows |->
     [id |-> tbl[rows[k]].id,
      distance |-> Distance(query, tbl[rows[k]].vector)]]

\* find_by_theme whose where clause asks for a rating, whatever it is
find_by_theme_any_rating(tbl, theme_description, limit, min_quality) ==
  LET embedding == TextEmbedding(theme_description)
      kept == IF IsSome(min_quality)
              THEN { i \in DOMAIN tbl : IsSome(tbl[i].quality_rating) }
              ELSE DOMAIN tbl
  IN { [result |-> "ok", hits |-> Hits(tbl, embedding, rows)] :
         rows \in vector_search(tbl, embedding, limit, kept) }

\* find_by_theme, lines 458-476.  The where clause is added when min_quality
\* is not None; a null quality_rating never satisfies the comparison.
find_by_theme(tbl, theme_description, limit, min_quality) ==
  LET embedding == TextEmbedding(theme_description)
      kept == IF IsSome(min_quality)
              THEN { i \in DOMAIN tbl :
                       /\ IsSome(tbl[i].quality_rating)
                       /\ Val(tbl[i].quality_rating) >= Val(min_quality) }
              ELSE DOMAIN tbl
  IN { [result |-> "ok", hits |-> Hits(tbl, embedding, rows)] :
         rows \in vector_search(tbl, embedding, limit, kept) }

\* find_similar, lines 437-456.  Image.open raises on bytes that are no
\* image; the where clause is added when media_type is truthy.
find_similar_unfiltered(tbl, reference_image, limit, media_type) ==
  IF ~PilDecodes(reference_image)
  THEN { [result |-> "UnidentifiedImageError", hits |-> <<>>] }
  ELSE LET embedding == ClipEmbedding(reference_image)
       IN { [result |-> "ok", hits |-> Hits(tbl, embedding, rows)] :
              rows \in vector_search(tbl, embedding, limit, DOMAIN tbl) }

find_similar(tbl, reference_image, limit, media_type) ==
  IF ~PilDecodes(reference_image)
  THEN { [result |-> "UnidentifiedImageError", hits |-> <<>>] }
  ELSE LET embedding == ClipEmbedding(reference_image)
           kept == IF Truthy(media_type)
                   THEN { i \in DOMAIN tbl : tbl[i].media_type = media_type }
                   ELSE DOMAIN tbl
       IN { [result |-> "ok", hits |-> Hits(tbl, embedding, rows)] :
              rows \in vector_search(tbl, embedding, limit, kept) }

\* ------------------------------------------------------------ search inputs
MaxLimit == 2
LimitInputs == 1..MaxLimit
ThemeInputs == {"hero shot", "logo on white"}
MinQualityInputs == {NoInt, Some(0), Some(7)}
MediaTypeInputs == {None, "", "image", "video"}
ReferenceInputs == {"PNG_hero", "JPG_logo", "garbage"}

\* A completed query: its arguments, its outcome and its hits.
Query(op, text, limit, min_quality, media_type, out) ==
  [op |-> op, id |-> NoInt, rating |-> NoInt, notes |-> None,
   episode |-> NoInt, result |-> out.result, again |-> FALSE,
   text |-> text, limit |-> limit, min_quality |-> min_quality,
   media_type |-> media_type, hits |-> out.hits]

FindByTheme ==
  /\ \E text \in ThemeInputs, limit \in LimitInputs, q \in MinQualityInputs :
       \E out \in find_by_theme(assets, text, limit, q) :
         last' = Query("find_by_theme", text, limit, q, None, out)
  /\ UNCHANGED <<assets, uuid_count, pending, table_names, backup, projects,
                 inst, db_exists, importing>>

FindSimilar(Types) ==
  /\ \E ref \in ReferenceInputs, limit \in LimitInputs, t \in Types :
       \E out \in find_similar(assets, ref, limit, t) :
         last' = Query("find_similar", ref, limit, NoInt, t, out)
  /\ UNCHANGED <<assets, uuid_count, pending, table_names, backup, projects,
                 inst, db_exists, importing>>

\* ------------------------------------------------- ingestion and theme search
NextTheme ==
  \/ AddImage(ExportImageFiles, {NoInt}, {<<>>})
  \/ RateAsset({0, 3, 7}, {"sharp"})
  \/ FindByTheme

SpecTheme == Init /\ [][NextTheme]_vars

\* -------------------------------------------- ingestion and similarity search
NextSimilar ==
  \/ AddImage(ExportImageFiles, {NoInt}, {<<>>})
  \/ AddVideo(VideoFileInputs, ThumbnailOutcomes, {NoInt}, {<<>>})
  \/ FindSimilar(MediaTypeInputs)

SpecSimilar == Init /\ [][NextSimilar]_vars

\* ------------------------- similarity search after ratings and assignments
NextSelf ==
  \/ AddImage(ExportImageFiles, {NoInt}, {<<>>})
  \/ AddVideo(VideoFileInputs, {"JPG_frame"}, {NoInt}, {<<>>})
  \/ RateAsset({7}, {"sharp"})
  \/ AssignToEpisode({1})
  \/ FindSimilar({None})

SpecSelf == Init /\ [][NextSelf]_vars

\* ------------------------------------------------------------- filter scans
\* A subject tag is a string; the model spells it as its characters, so that
\* one tag can be a substring of another.
Mac == <<"m", "a", "c">>
MacStudio == <<"m", "a", "c", "s">>
Ac == <<"a", "c">>
SubjectInputs == {Mac, Ac}
SubjectsInputs == {<<>>, <<Mac>>, <<MacStudio, Ac>>}

\* subjects or [] (lines 321, 421): the subjects column of the record that
\* an ingestion appended.
WithSubjects(out, subjects) ==
  IF out.result # "ok" THEN out
  ELSE LET n == Len(out.tbl)
           row == out.tbl[n]
       IN [out EXCEPT !.tbl[n] =
             [f \in DOMAIN row \cup {"subjects"} |->
                IF f = "subjects" THEN subjects ELSE row[f]]]

\* array_contains(column, value): some element of the list equals the value.
array_contains(list, value) == \E k \in DOMAIN list : list[k] = value

\* A query under construction: the rows its where clause keeps.
search(tbl) == [where |-> DOMAIN tbl]

\* LanceQueryBuilder.where sets the builder's filter: a second call
\* replaces the filter of the first.
where(query, kept) == [query EXCEPT !.where = kept]

\* to_pandas() of a scan: the ids of the kept rows, in table order.
to_pandas(tbl, query) ==
  LET rows == SelectSeq([i \in DOMAIN tbl |-> i], LAMBDA i : i \in query.where)
  IN [k \in DOMAIN rows |-> tbl[rows[k]].id]

\* find_by_subject, lines 478-494.
find_by_subject(tbl, subject, media_type) ==
  LET query == where(search(tbl),
                     { i \in DOMAIN tbl : array_contains(tbl[i].subjects, subject) })
  IN IF Truthy(media_type)
     THEN to_pandas(tbl, where(query, { i \in DOMAIN tbl :
                                          tbl[i].media_type = media_type }))
     ELSE to_pandas(tbl, query)

\* find_for_episode, lines 496-513.
find_for_episode_flag_ignored(tbl, episode, unassigned_only) ==
  to_pandas(tbl, where(search(tbl),
    { i \in DOMAIN tbl : array_contains(tbl[i].episode_assignments, episode) }))

find_for_episode(tbl, episode, unassigned_only) ==
  IF unassigned_only
  THEN to_pandas(tbl, where(search(tbl),
         { i \in DOMAIN tbl :
             ~array_contains(tbl[i].episode_assignments, episode) }))
  ELSE to_pandas(tbl, where(search(tbl),
         { i \in DOMAIN tbl :
             array_contains(tbl[i].episode_assignments, episode) }))

\* A completed scan: its arguments and the ids it returned.
Scan(op, subject, episode, media_type, unassigned_only, ids) ==
  [op |-> op, id |-> NoInt, rating |-> NoInt, notes |-> None,
   episode |-> episode, result |-> "ok", again |-> FALSE,
   subject |-> subject, media_type |-> media_type,
   unassigned_only |-> unassigned_only, ids |-> ids]

AddImageTagged ==
  /\ Len(assets) < MaxAssets
  /\ \E file \in ExportImageFiles, subjects \in SubjectsInputs :
       LET out == WithSubjects(
                    add_image(assets, uuid_count, file, TRUE, NoInt, <<>>),
                    subjects)
       IN /\ assets' = out.tbl
          /\ uuid_count' = uuid_count + out.drew
          /\ last' = Call("add_image", out.id, NoInt, None, NoInt,
                          out.result, FALSE)
  /\ UNCHANGED <<pending, table_names, backup, projects, inst, db_exists,
                 importing>>

AddVideoTagged ==
  /\ Len(assets) < MaxAssets
  /\ \E file \in VideoFileInputs, subjects \in SubjectsInputs :
       LET out == WithSubjects(
                    add_video(assets, uuid_count, file, "JPG_frame", TRUE,
                              NoInt, <<>>),
                    subjects)
       IN /\ assets' = out.tbl
          /\ uuid_count' = uuid_count + out.drew
          /\ last' = Call("add_video", out.id, NoInt, None, NoInt,
                          out.result, FALSE)
  /\ UNCHANGED <<pending, table_names, backup, projects, inst, db_exists,
                 importing>>

FindBySubject ==
  /\ \E s \in SubjectInputs, t \in MediaTypeInputs :
       last' = Scan("find_by_subject", s, NoInt, t, FALSE,
                    find_by_subject(assets, s, t))
  /\ UNCHANGED <<assets, uuid_count, pending, table_names, backup, projects,
                 inst, db_exists, importing>>

FindForEpisode ==
  /\ \E e \in EpisodeInputs, u \in BOOLEAN :
       last' = Scan("find_for_episode", <<>>, Some(e), None, u,
                    find_for_episode(assets, e, u))
  /\ UNCHANGED <<assets, uuid_count, pending, table_names, backup, projects,
                 inst, db_exists, importing>>

\* ------------------------------------------- ingestion and subject search
NextSubject ==
  \/ AddImageTagged
  \/ AddVideoTagged
  \/ FindBySubject

SpecSubject == Init /\ [][NextSubject]_vars

\* ------------------------------------ ingestion, assignment, episode search
NextEpisode ==
  \/ AddImage(ExportImageFiles, {NoInt}, AddEpisodeInputs)
  \/ AddVideo(VideoFileInputs, {"JPG_frame"}, {NoInt}, {<<>>})
  \/ AssignToEpisode(EpisodeInputs)
  \/ FindForEpisode

SpecEpisode == Init /\ [][NextEpisode]_vars

\* ------------------------------------------------------- backup of the store
\* The environment: the directory at db_path is removed (or its volume
\* unmounted) while the instance lives on; lines 713-714 test for this.
RemoveDbDir ==
  /\ db_exists
  /\ db_exists' = FALSE
  /\ table_names' = {}
  /\ assets' = <<>>
  /\ projects' = <<>>
  /\ last' = Call("rmtree", NoInt, NoInt, None, NoInt, "ok", FALSE)
  /\ UNCHANGED <<uuid_count, pending, backup, inst, importing>>

\* assets_table.add (lines 331, 431) through an instance whose directory is
\* gone.  The call runs as ever up to the add, so a uuid is drawn; what the
\* add does depends on the LanceDB version: it raises, or it writes the row
\* into a new dataset at the old place.
AddOnRemovedStore(out, op) ==
  IF out.result # "ok"
  THEN /\ last' = Call(op, out.id, NoInt, None, NoInt, out.result, FALSE)
       /\ UNCHANGED <<assets, uuid_count, table_names, db_exists>>
  ELSE /\ uuid_count' = uuid_count + out.drew
       /\ \/ /\ last' = Call(op, NoInt, NoInt, None, NoInt, "StoreError", FALSE)
             /\ UNCHANGED <<assets, table_names, db_exists>>
          \/ /\ last' = Call(op, out.id, NoInt, None, NoInt, "ok", FALSE)
             /\ assets' = out.tbl
             /\ table_names' = {"assets"}
             /\ db_exists' = TRUE

AddImageRemoved ==
  /\ ~db_exists
  /\ uuid_count < MaxAssets
  /\ \E file \in ExportImageFiles, clip_ok \in BOOLEAN :
       AddOnRemovedStore(add_image(<<>>, uuid_count, file, clip_ok, NoInt, <<>>),
                         "add_image")
  /\ UNCHANGED <<pending, backup, projects, inst, importing>>

AddVideoRemoved ==
  /\ ~db_exists
  /\ uuid_count < MaxAssets
  /\ \E file \in VideoFileInputs, clip_ok \in BOOLEAN :
       AddOnRemovedStore(add_video(<<>>, uuid_count, file, "JPG_frame",
                                   clip_ok, NoInt, <<>>),
                         "add_video")
  /\ UNCHANGED <<pending, backup, projects, inst, importing>>

\* assets_table.update (line 526) through such an instance: the range check
\* comes first; the update raises or finds no row.
RateAssetRemoved ==
  /\ ~db_exists
  /\ \E id \in IdInputs, r \in {7, 11}, result \in {"ok", "StoreError"} :
       LET out == rate_asset(assets, id, r, "sharp")
       IN last' = Call("rate_asset", Some(id), Some(r), "sharp", NoInt,
                       IF out.result = "ok" THEN result ELSE out.result, FALSE)
  /\ UNCHANGED <<assets, uuid_count, pending, table_names, backup, projects,
                 inst, db_exists, importing>>

\* While the directory is there the calls are those of the store; the model
\* stops issuing ids at MaxAssets.
NextBackup ==
  \/ (db_exists /\ uuid_count < MaxAssets)
       /\ AddImage(ExportImageFiles, {NoInt}, {<<>>})
  \/ (db_exists /\ uuid_count < MaxAssets)
       /\ AddVideo(VideoFileInputs, {"JPG_frame"}, {NoInt}, {<<>>})
  \/ db_exists /\ RateAsset({7}, {"sharp"})
  \/ AddImageRemoved
  \/ AddVideoRemoved
  \/ RateAssetRemoved
  \/ InitTables
  \/ BackupToBeta
  \/ ApiBackupToBeta
  \/ RemoveDbDir

SpecBackup == Init /\ [][NextBackup]_vars

\* --------------------------------- two constructors on one fresh location
\* The server (get_db, media_api.py:42-49), the import script and the command
\* line each construct a MediaDatabase on the same db_path; nothing
\* serialises their _init_tables.
\* Lines 105 and 115: connect, which creates the directory, and the one read
\* of the table names.
InitRead(c) ==
  /\ inst[c].pc = "new"
  /\ inst' = [inst EXCEPT ![c] = [pc |-> "read", seen |-> table_names]]
  /\ db_exists' = TRUE
  /\ UNCHANGED <<assets, uuid_count, pending, last, table_names, backup,
                 projects, importing>>

\* Lines 117-150: create the assets table in overwrite mode when its name
\* was not among those read, else open it.
InitAssets(c) ==
  /\ inst[c].pc = "read"
  /\ assets' = init_tables(inst[c].seen, assets)
  /\ table_names' = table_names \cup {"assets"}
  /\ inst' = [inst EXCEPT ![c].pc = "assets"]
  /\ UNCHANGED <<uuid_count, pending, last, backup, projects, db_exists,
                 importing>>

\* Lines 154-170: the same for the projects table; the constructor returns.
InitProjects(c) ==
  /\ inst[c].pc = "assets"
  /\ projects' = init_projects(inst[c].seen, projects)
  /\ table_names' = table_names \cup {"projects"}
  /\ inst' = [inst EXCEPT ![c].pc = "ready"]
  /\ last' = Call("init", NoInt, NoInt, None, NoInt, "ok", FALSE)
  /\ UNCHANGED <<assets, uuid_count, pending, backup, db_exists, importing>>

\* An ingestion through an instance whose constructor has returned.
SomeReady == \E c \in Callers : inst[c].pc = "ready"

NextRace ==
  \/ \E c \in Callers : InitRead(c)
  \/ \E c \in Callers : InitAssets(c)
  \/ \E c \in Callers : InitProjects(c)
  \/ SomeReady /\ AddImage(ExportImageFiles, AddRatingInputs, {<<>>})
  \/ SomeReady /\ AddVideo(VideoFileInputs, ThumbnailOutcomes, {NoInt}, {<<>>})

SpecRace == InitFresh /\ [][NextRace]_vars

\* =================================================================== claims
\* The error kinds of the specification's taxonomy, as the store raises them
\* and as the API answers them.
ErrorKind(result) ==
  CASE result \in {"ValueError: Rating must be between 1 and 10", "HTTP400"}
         -> "InvalidArgument"
    [] result \in {"ValueError: Asset not found", "FileNotFoundError",
                   "HTTP404"}
         -> "NotFound"
    [] OTHER -> "none"

RateOps == {"rate_asset", "api_rate_asset"}
AssignOps == {"assign_to_episode", "api_assign_episode"}
AddOps == {"add_image", "add_video", "api_add_image", "api_add_video"}

Rows == 1..Len(assets)

\* C1: rate_asset with a rating outside [1,10] fails with an
\* InvalidArgument-kind error and leaves quality_rating and quality_notes of
\* every record as they were.
C1_RateOutOfRangeRejected ==
  /\ [](last.op \in RateOps /\ Val(last.rating) \notin 1..10
          => ErrorKind(last.result) = "InvalidArgument")
  /\ [][last'.op \in RateOps /\ Val(last'.rating) \notin 1..10
          => /\ Len(assets') = Len(assets)
             /\ \A i \in Rows :
                  /\ assets'[i].quality_rating = assets[i].quality_rating
                  /\ assets'[i].quality_notes = assets[i].quality_notes]_vars

\* A rating outside the range was refused for a record that carries a rating.
C1_Witness ==
  /\ last.op \in RateOps
  /\ Val(last.rating) \notin 1..10
  /\ ErrorKind(last.result) = "InvalidArgument"
  /\ \E i \in Rows : /\ assets[i].id = Val(last.id)
                      /\ assets[i].quality_rating = Some(7)
                      /\ assets[i].quality_notes = "sharp"

\* The stored episode list of the asset a call named, <<>> when there is none.
StoredEpisodes(asset_id) ==
  LET hits == SearchById(assets, asset_id)
  IN IF Len(hits) = 0 THEN <<>> ELSE hits[1].episode_assignments

\* C2: assign_to_episode(id, e) called twice in sequence on an existing asset
\* leaves e in the stored episode_assignments exactly once, and the second
\* call leaves the stored list as the first left it.
C2_AssignTwiceExactlyOnce ==
  /\ []((/\ last.op \in AssignOps
         /\ last.again
         /\ get_asset(assets, Val(last.id)) # <<>>
         /\ Val(last.episode) \in 1..8)
          => Count(Val(last.episode), StoredEpisodes(Val(last.id))) = 1)
  /\ [][last'.op \in AssignOps /\ last'.again => assets' = assets]_vars

\* C3: two assign_to_episode calls on one asset with different episodes,
\* whose reads both came before either write (they read the same list, which
\* held neither episode), both return successfully and leave exactly one of
\* the two episodes stored.
C3_LostUpdate ==
  \A c \in Callers, d \in Callers :
    ( /\ c # d
      /\ pending[c].pc = "idle" /\ pending[c].result # "none"
      /\ pending[d].pc = "idle" /\ pending[d].result # "none"
      /\ pending[c].id = pending[d].id
      /\ pending[c].episode # pending[d].episode
      /\ pending[c].current = pending[d].current
      /\ ~InSeq(pending[c].episode, pending[c].current)
      /\ ~InSeq(pending[d].episode, pending[d].current) )
    => LET stored == StoredEpisodes(pending[c].id)
       IN /\ pending[c].result = "ok"
          /\ pending[d].result = "ok"
          /\ InSeq(pending[c].episode, stored) # InSeq(pending[d].episode, stored)

\* C4: every record's quality_rating is absent or an integer in [1,10].
C4_RatingInRange ==
  \A i \in Rows :
    \/ assets[i].quality_rating = NoInt
    \/ Val(assets[i].quality_rating) \in 1..10

\* C5: every record's episode_assignments is duplicate-free.
C5_EpisodesDuplicateFree ==
  \A i \in Rows :
    \A k \in 1..Len(assets[i].episode_assignments) :
      Count(assets[i].episode_assignments[k], assets[i].episode_assignments) = 1

\* C6: every stored episode is in [1,8], and an assignment that supplies an
\* episode outside [1,8] is rejected as InvalidArgument.
C6_EpisodesInRange ==
  /\ \A i \in Rows :
       \A k \in 1..Len(assets[i].episode_assignments) :
         assets[i].episode_assignments[k] \in 1..8
  /\ last.op \in AssignOps /\ Val(last.episode) \notin 1..8
       => ErrorKind(last.result) = "InvalidArgument"

\* C7: once an episode is a member of an asset's episode_assignments it
\* stays a member, in every interleaving of store operations.
C7_EpisodesAppendOnly ==
  [][\A i \in Rows :
       \A k \in 1..Len(assets[i].episode_assignments) :
         /\ i <= Len(assets')
         /\ InSeq(assets[i].episode_assignments[k],
                  assets'[i].episode_assignments)]_vars

\* Two callers read the episodes of one record, which held episode 9, and
\* both returned from their calls for other episodes; 9 is still stored.
C7_Witness ==
  /\ pending[1].pc = "idle" /\ pending[1].result # "none"
  /\ pending[2].pc = "idle" /\ pending[2].result # "none"
  /\ pending[1].id = pending[2].id
  /\ pending[1].episode = 1 /\ pending[2].episode = 2
  /\ pending[1].current = <<9>> /\ pending[2].current = <<9>>
  /\ InSeq(9, StoredEpisodes(pending[1].id))

\* C8: stats() counts every record as exactly one of image / video and as
\* exactly one of rated / unrated.
C8_StatsPartition ==
  LET s == stats(assets)
  IN /\ s.images + s.videos = s.total_assets
     /\ s.rated_count + s.unrated_count = s.total_assets

\* An image and a video without a thumbnail, one of them rated.
C8_Witness ==
  /\ Len(assets) = 2
  /\ \E i \in Rows : assets[i].media_type = "image"
  /\ \E i \in Rows : assets[i].media_type = "video"
                      /\ assets[i].thumbnail = None
  /\ stats(assets).rated_count = 1
  /\ stats(assets).unrated_count = 1

\* C9: a record has exactly one of image bytes / video bytes, the one its
\* media_type names, and an image record has no thumbnail.
C9_ContentMatchesMediaType ==
  \A i \in Rows :
    /\ assets[i].media_type \in {"image", "video"}
    /\ assets[i].media_type = "image"
         => /\ assets[i].image # None
            /\ assets[i].video = None
            /\ assets[i].thumbnail = None
    /\ assets[i].media_type = "video"
         => /\ assets[i].video # None
            /\ assets[i].image = None

\* An image record next to a video record that carries a thumbnail.
C9_Witness ==
  /\ \E i \in Rows : assets[i].media_type = "image"
  /\ \E i \in Rows : assets[i].media_type = "video"
                      /\ assets[i].thumbnail = "JPG_frame"

\* C10: no two records share an id, a successful ingestion returns an id
\* that was never issued before and stores it, and a record's id never
\* changes.
C10_IdsUniqueAndStable ==
  /\ [](\A i \in Rows, j \in Rows : assets[i].id = assets[j].id => i = j)
  /\ [][/\ \A i \in Rows : /\ i <= Len(assets')
                            /\ assets'[i].id = assets[i].id
         /\ last'.op \in AddOps /\ last'.result = "ok"
              => /\ Val(last'.id) \notin 1..uuid_count
                 /\ Len(assets') = Len(assets) + 1
                 /\ assets'[Len(assets')].id = Val(last'.id)]_vars

\* A second ingestion returned its id.
C10_Witness ==
  /\ Len(assets) = 2
  /\ last.op \in AddOps /\ last.result = "ok"
  /\ assets[2].id = Val(last.id)
  /\ assets[1].id # assets[2].id

\* ---------------------------------------------------------- permanence
\* The ids add_image / add_video have returned so far.
ReturnedIds == 1..uuid_count

\* C11: assets are permanent.  Every id an ingestion has returned resolves
\* through get_asset in every later state, and no step of ingestion, rating,
\* assignment, query, backup or re-initialisation lowers stats().total_assets
\* or makes a resolvable id unresolvable.
C11_AssetsPermanent ==
  /\ [](\A id \in ReturnedIds : get_asset(assets, id) # <<>>)
  /\ [][/\ stats(assets').total_assets >= stats(assets).total_assets
        /\ \A id \in IdInputs :
             get_asset(assets, id) # <<>> => get_asset(assets', id) # <<>>]_vars

\* The store was constructed again over two rated, backed-up records.
C11_Witness ==
  /\ last.op = "init"
  /\ stats(assets).total_assets = 2
  /\ stats(assets).rated_count > 0
  /\ backup # NoDir
  /\ \A id \in ReturnedIds : get_asset(assets, id) # <<>>
  /\ uuid_count = 2

\* ------------------------------------------------------- frame of a mutation
\* Row i agrees before and after on every column outside Cols.
SameOutside(i, Cols) ==
  /\ DOMAIN assets'[i] = DOMAIN assets[i]
  /\ \A f \in DOMAIN assets[i] \ Cols : assets'[i][f] = assets[i][f]

\* Only the row whose id is asset_id may differ, and only in Cols.
FrameOf(asset_id, Cols) ==
  /\ Len(assets') = Len(assets)
  /\ \A i \in Rows :
       IF assets[i].id = asset_id THEN SameOutside(i, Cols)
       ELSE assets'[i] = assets[i]

\* C12: after creation a record changes in quality_rating, quality_notes and
\* episode_assignments only.  rate_asset(id, ...) changes nothing but
\* quality_rating and quality_notes of the record with that id,
\* assign_to_episode(id, e) nothing but episode_assignments of that record;
\* every other column and every other record stays as it was.
C12_MutationFrame ==
  [][/\ Len(assets') >= Len(assets)
     /\ \A i \in Rows :
          SameOutside(i, {"quality_rating", "quality_notes",
                          "episode_assignments"})
     /\ last'.op = "rate_asset" =>
          FrameOf(Val(last'.id), {"quality_rating", "quality_notes"})
     /\ last'.op = "assign_to_episode" =>
          FrameOf(Val(last'.id), {"episode_assignments"})]_vars

\* Of two records one was rated, and then an assignment of the other to an
\* episode it did not have was called.
C12_Witness ==
  /\ Len(assets) = 2
  /\ \E i, j \in Rows :
       /\ i # j
       /\ assets[i].quality_rating = Some(7)
       /\ assets[i].quality_notes = "sharp"
       /\ assets[j].quality_rating = NoInt
       /\ last.id = Some(assets[j].id)
  /\ last.op = "assign_to_episode"
  /\ last.episode = Some(1)

\* ------------------------------------------------------- ingestion failures
\* C13: add_image and add_video called with a path that does not exist fail
\* with a NotFound-kind error and append no record: the assets relation and
\* stats().total_assets are the same after the call as before.
C13_MissingPathRejected ==
  /\ [](\A clip_ok \in BOOLEAN, q \in AddRatingInputs, eps \in AddEpisodeInputs :
         /\ \A file \in ImageFileInputs :
              ~file.exists =>
                LET out == add_image(assets, uuid_count, file, clip_ok, q, eps)
                IN /\ ErrorKind(out.result) = "NotFound"
                   /\ out.tbl = assets
                   /\ out.id = NoInt
                   /\ stats(out.tbl).total_assets = stats(assets).total_assets
         /\ \A file \in VideoFileInputs, thumb \in ThumbnailOutcomes :
              ~file.exists =>
                LET out == add_video(assets, uuid_count, file, thumb, clip_ok,
                                     q, eps)
                IN /\ ErrorKind(out.result) = "NotFound"
                   /\ out.tbl = assets
                   /\ out.id = NoInt
                   /\ stats(out.tbl).total_assets = stats(assets).total_assets)
  /\ [][(last'.op \in {"add_image", "add_video"}
             /\ last'.result = "FileNotFoundError") =>
          (assets' = assets /\ uuid_count' = uuid_count)]_vars

\* An ingestion from a missing path was refused on a store holding a record.
C13_Witness ==
  /\ last.op \in {"add_image", "add_video"}
  /\ last.result = "FileNotFoundError"
  /\ ErrorKind(last.result) = "NotFound"
  /\ last.id = NoInt
  /\ stats(assets).total_assets = 1

\* ------------------------------------------------------ ingestion successes
\* The step appended exactly one record of media type kind under the id the
\* call returned, an id no record had and no call had returned before, and
\* left the records stored before as they were.
AppendedOne(kind) ==
  /\ IsSome(last'.id)
  /\ Val(last'.id) \notin ReturnedIds
  /\ \A i \in Rows : assets[i].id # Val(last'.id)
  /\ Len(assets') = Len(assets) + 1
  /\ SubSeq(assets', 1, Len(assets)) = assets
  /\ assets'[Len(assets')].id = Val(last'.id)
  /\ assets'[Len(assets')].media_type = kind
  /\ stats(assets').total_assets = stats(assets).total_assets + 1

\* C14: a successful add_image returns a fresh id and appends exactly one
\* record with media_type image: stats().total_assets and stats().images
\* each grow by exactly 1, stats().videos stays, and the records stored
\* before are unchanged.  A successful add_video does the same with
\* total_assets and videos.
C14_AddAppendsOne ==
  [][/\ (last'.op \in {"add_image", "api_add_image"}
            /\ last'.result = "ok") =>
          /\ AppendedOne("image")
          /\ stats(assets').images = stats(assets).images + 1
          /\ stats(assets').videos = stats(assets).videos
     /\ (last'.op \in {"add_video", "api_add_video"}
            /\ last'.result = "ok") =>
          /\ AppendedOne("video")
          /\ stats(assets').videos = stats(assets).videos + 1
          /\ stats(assets').images = stats(assets).images]_vars

\* An image was ingested into a store that already held a video.
C14_Witness ==
  /\ last.op = "add_image"
  /\ last.result = "ok"
  /\ Len(assets) = 2
  /\ assets[1].media_type = "video"
  /\ assets[2].media_type = "image"
  /\ assets[2].id = Val(last.id)
  /\ stats(assets).images = 1
  /\ stats(assets).videos = 1

\* ------------------------------------------------------------- round trip
\* C15: for every file p that add_image ingests successfully,
\* export_asset(add_image(p), out) writes to out exactly the bytes of p, and
\* what export_asset writes for a stored record stays the same through every
\* later rating, assignment and ingestion.
C15_ExportRoundTrip ==
  /\ [](\A file \in ExportImageFiles, clip_ok \in BOOLEAN :
         LET out == add_image(assets, uuid_count, file, clip_ok, NoInt, <<>>)
         IN out.result = "ok" =>
              export_asset(out.tbl, Val(out.id)) =
                [result |-> "ok", written |-> file.bytes])
  /\ [][\A i \in Rows :
          export_asset(assets', assets[i].id) =
            export_asset(assets, assets[i].id)]_vars

\* The second of two images was exported after it had been rated.
C15_Witness ==
  /\ last.op = "export_asset"
  /\ last.result = "ok"
  /\ last.written = "JPG_logo"
  /\ Len(assets) = 2
  /\ assets[1].image = "PNG_hero"
  /\ assets[2].id = Val(last.id)
  /\ assets[2].filename = JpgName
  /\ assets[2].quality_rating = Some(7)

\* ------------------------------------------------------------ bulk import
\* The entry is a regular file with an image or video extension.
Candidate(entry) ==
  /\ entry.is_file
  /\ Lower(entry.file.name.suffix) \in image_extensions \cup video_extensions

\* Ingesting the entry on its own succeeds.
Ingests(entry) ==
  /\ Candidate(entry)
  /\ IF Lower(entry.file.name.suffix) \in image_extensions
       THEN add_image(<<>>, 0, entry.file, entry.clip_ok,
                      NoInt, <<>>).result = "ok"
       ELSE add_video(<<>>, 0, entry.file, entry.thumb, entry.clip_ok,
                      NoInt, <<>>).result = "ok"

\* The file names of the rows of tbl from position from on.
RECURSIVE NamesFrom(_, _)
NamesFrom(tbl, from) ==
  IF from > Len(tbl) THEN <<>>
  ELSE <<tbl[from].filename>> \o NamesFrom(tbl, from + 1)

\* The entries the import under way has been through.
Imported == SubSeq(importing.files, 1, importing.k - 1)

\* C16: import_directory on an existing directory never aborts because one
\* file fails.  Every candidate image / video file is attempted (it is
\* ingested or its failure is logged), a failing file is skipped, and the
\* returned count is the number of files ingested successfully, which is the
\* number of records the call appended; files with other extensions and
\* entries that are no files are neither ingested nor counted.  This holds
\* of the call run on its own from the state it was entered in, and of the
\* call with the ingestions of other callers falling between its files: each
\* turn of the loop appends one record to whatever the table holds and
\* counts it, or appends and counts nothing, and the call returns the count
\* when glob is exhausted.
C16_ImportIsolatesFailures ==
  /\ []((importing.pc = "loop" /\ importing.k = 1) =>
           LET dir == [exists |-> TRUE, files |-> importing.files]
               out == import_directory(assets, uuid_count, dir)
               ok == SelectSeq(dir.files, Ingests)
               candidates == SelectSeq(dir.files, Candidate)
           IN /\ out.result = "ok"
              /\ Val(out.count) = Len(ok)
              /\ Val(out.count) + Len(out.log) = Len(candidates)
              /\ Len(out.tbl) = Len(assets) + Val(out.count)
              /\ SubSeq(out.tbl, 1, Len(assets)) = assets
              /\ NamesFrom(out.tbl, Len(assets) + 1) =
                   [k \in 1..Len(ok) |-> ok[k].file.name])
  /\ [](importing.pc = "loop" =>
         /\ importing.count = Len(SelectSeq(Imported, Ingests))
         /\ importing.count + Len(importing.log)
              = Len(SelectSeq(Imported, Candidate)))
  /\ [][(importing.pc = "loop" /\ importing'.pc = "loop"
         /\ importing'.k = importing.k + 1) =>
          LET entry == importing.files[importing.k]
          IN /\ SubSeq(assets', 1, Len(assets)) = assets
             /\ Len(assets') - Len(assets) = importing'.count - importing.count
             /\ importing'.count - importing.count
                  = IF Ingests(entry) THEN 1 ELSE 0
             /\ Ingests(entry) =>
                  assets'[Len(assets')].filename = entry.file.name]_vars
  /\ [][(importing.pc = "loop" /\ importing'.pc = "idle") =>
          /\ importing.k = Len(importing.files) + 1
          /\ last'.op = "import_directory"
          /\ last'.result = "ok"
          /\ last'.count = Some(importing.count)
          /\ last'.log = importing.log
          /\ assets' = assets]_vars

\* An import went through an image file that failed and a video file that
\* it ingested; while it was at work another caller ingested a video, whose
\* record lies behind the record of the import.  The import returned 1.
C16_Witness ==
  /\ last.op = "import_directory"
  /\ last.result = "ok"
  /\ last.count = Some(1)
  /\ last.log = <<"UnidentifiedImageError">>
  /\ importing.pc = "idle"
  /\ Len(assets) = 2
  /\ assets[1].media_type = "video"
  /\ assets[1].filename = UpperMp4Name
  /\ assets[2].filename = Mp4Name
  /\ assets[2].thumbnail = ""

\* ----------------------------------------------------- the zero fallback
\* The record stored under asset_id (the id is known to resolve).
RowOf(asset_id) == get_asset(assets, asset_id)[1]

\* The Frame Extractor delivered no frame: nothing, or zero bytes.
NoFrame(thumbnail) == thumbnail \in {None, ""}

\* C17 as stated: for videos, a failure of the Frame Extractor or of the
\* Embedding Provider never fails the ingestion; add_video on an existing
\* file still returns a new id and appends exactly one video record, which
\* carries the all-zero embedding.
C17_VideoFallbackOnAnyFailure ==
  last.op = "add_video" =>
    /\ last.result \in {"ok", "FileNotFoundError"}
    /\ (last.result = "ok" /\ NoFrame(RowOf(Val(last.id)).thumbnail)) =>
         /\ RowOf(Val(last.id)).media_type = "video"
         /\ RowOf(Val(last.id)).vector = ZeroEmbedding

\* C17, amended: for videos, a failure of the Frame Extractor (no frame, or
\* an empty one) never fails the ingestion; add_video on an existing file
\* still returns a new id and appends exactly one video record, which carries
\* the all-zero embedding.  A failure of the Embedding Provider on an
\* extracted frame fails the ingestion and appends no record.
C17_VideoFallbackOnFrameFailure ==
  /\ [](\A file \in VideoFileInputs, thumb \in FrameOutcomes,
          clip_ok \in BOOLEAN :
         LET out == add_video(assets, uuid_count, file, thumb, clip_ok,
                              NoInt, <<>>)
         IN /\ (file.exists /\ NoFrame(thumb)) =>
                 /\ out.result = "ok"
                 /\ IsSome(out.id)
                 /\ Val(out.id) \notin ReturnedIds
                 /\ Len(out.tbl) = Len(assets) + 1
                 /\ SubSeq(out.tbl, 1, Len(assets)) = assets
                 /\ out.tbl[Len(out.tbl)].id = Val(out.id)
                 /\ out.tbl[Len(out.tbl)].media_type = "video"
                 /\ out.tbl[Len(out.tbl)].vector = ZeroEmbedding
            /\ (file.exists /\ ~NoFrame(thumb) /\ ~clip_ok) =>
                 /\ out.result = "EmbeddingError"
                 /\ out.tbl = assets)
  /\ [][(last'.op = "add_video" /\ last'.result = "EmbeddingError") =>
          assets' = assets]_vars

\* A video whose frame came back empty was ingested as the second record.
C17_Witness ==
  /\ last.op = "add_video"
  /\ last.result = "ok"
  /\ Len(assets) = 2
  /\ assets[2].id = Val(last.id)
  /\ assets[2].thumbnail = ""
  /\ assets[2].video = "MP4_clip"
  /\ assets[2].vector = ZeroEmbedding

\* _get_image_embedding divides the vector by its norm (lines 204-205).
IsUnitNorm(vector) == vector[1] = "clip"

\* C18: every successfully embedded record has a unit-norm
\* embedding and the zero fallback is distinguishable from it; a record's
\* embedding is the all-zero vector if and only if the record is a video
\* whose thumbnail is absent, and every image record and every video record
\* with a thumbnail carries a computed unit-norm embedding.
C18_ZeroIffThumbnailAbsent ==
  \A i \in Rows :
    /\ assets[i].vector = ZeroEmbedding <=>
         (assets[i].media_type = "video" /\ assets[i].thumbnail = None)
    /\ (assets[i].media_type = "image" \/ assets[i].thumbnail # None) =>
         IsUnitNorm(assets[i].vector)

\* ------------------------------------------------------------- unknown ids
\* The id the last call named resolves to no record.
LastIdUnknown == IsSome(last.id) /\ get_asset(assets, Val(last.id)) = <<>>

\* C19: rate_asset(id, r, notes) with a valid r in [1,10] and an id that
\* resolves to no record fails with a NotFound-kind error (and changes no
\* record).
C19_RateUnknownIdNotFound ==
  (last.op \in RateOps /\ Val(last.rating) \in 1..10 /\ LastIdUnknown)
    => ErrorKind(last.result) = "NotFound"

\* C20: assign_to_episode(id, e) with an id that resolves to no record fails
\* with a NotFound-kind error and changes no record.  Through the API this is
\* the answer to a request whose episode passed the range check of the
\* handler.
C20_AssignUnknownIdNotFound ==
  /\ []((last.op = "assign_to_episode" /\ LastIdUnknown)
         => ErrorKind(last.result) = "NotFound")
  /\ []((last.op = "api_assign_episode" /\ LastIdUnknown
           /\ Val(last.episode) \in 1..8)
         => ErrorKind(last.result) = "NotFound")
  /\ [][(last'.op \in AssignOps /\ get_asset(assets, Val(last'.id)) = <<>>)
         => assets' = assets]_vars

\* An assignment naming an id that was never issued was refused on a store
\* holding a record with an episode list.
C20_Witness ==
  /\ last.op \in AssignOps
  /\ LastIdUnknown
  /\ Val(last.episode) = 1
  /\ ErrorKind(last.result) = "NotFound"
  /\ Len(assets) > 0
  /\ \E i \in Rows : assets[i].episode_assignments # <<>>

\* ------------------------------------------------- schema initialisation
\* C21: schema initialisation is idempotent.  A construction succeeds; a
\* relation that already exists at the location is opened with every record
\* unchanged; a relation is created, empty, only when it is absent; and after
\* the construction both relations exist.
C21_InitIdempotent ==
  [][last'.op = "init" =>
       /\ last'.result = "ok"
       /\ ("assets" \in table_names) => (assets' = assets)
       /\ ("projects" \in table_names) => (projects' = projects)
       /\ ("assets" \notin table_names) => (assets' = <<>>)
       /\ ("projects" \notin table_names) => (projects' = <<>>)
       /\ table_names' = table_names \cup {"assets", "projects"}]_vars

\* The store was constructed again over two records, one of them rated.
C21_Witness ==
  /\ last.op = "init"
  /\ Len(assets) = 2
  /\ \E i \in Rows : IsSome(assets[i].quality_rating)
  /\ {"assets", "projects"} \subseteq table_names

\* ------------------------------------------------------------------ queries
\* The record with the given id.
Record(id) == assets[CHOOSE i \in Rows : assets[i].id = id]

HitIds == { last.hits[k].id : k \in DOMAIN last.hits }

\* C22: find_by_theme with min_quality set returns only records that carry a
\* rating, and one at least min_quality; a record without a rating is never
\* among the hits.  With or without min_quality, it returns at most limit
\* records, each a record of the store and none twice.
C22_ThemeMinQuality ==
  last.op = "find_by_theme" =>
    /\ Len(last.hits) <= last.limit
    /\ \A k \in DOMAIN last.hits :
         /\ \E i \in Rows : assets[i].id = last.hits[k].id
         /\ \A m \in DOMAIN last.hits : last.hits[m].id = last.hits[k].id => m = k
    /\ last.min_quality # NoInt =>
         \A k \in DOMAIN last.hits :
           /\ Record(last.hits[k].id).quality_rating # NoInt
           /\ Record(last.hits[k].id).quality_rating[1] >= last.min_quality[1]

\* A search with min_quality 7 and limit 2 over a record rated 3 and a
\* record rated 7 returned the record rated 7 only.
C22_Witness ==
  /\ last.op = "find_by_theme"
  /\ last.min_quality = <<7>>
  /\ last.limit = 2
  /\ Len(last.hits) = 1
  /\ \E i, j \in Rows :
       /\ assets[i].quality_rating = Some(3)
       /\ assets[j].quality_rating = Some(7)
       /\ assets[j].id = last.hits[1].id

\* The media types a filter can name.
MediaTypes == {"image", "video"}

\* C23: find_similar with a media-type filter t returns only records whose
\* media_type is t.  With or without a filter the hits are records of the
\* store, none twice, in ascending order of their distance to the reference,
\* and at most limit of them.
C23_SimilarFiltered ==
  (last.op = "find_similar" /\ last.result = "ok") =>
    /\ Len(last.hits) <= last.limit
    /\ \A k \in DOMAIN last.hits :
         /\ \E i \in Rows : assets[i].id = last.hits[k].id
         /\ \A m \in DOMAIN last.hits : last.hits[m].id = last.hits[k].id => m = k
         /\ last.hits[k].distance
              = Distance(ClipEmbedding(last.text), Record(last.hits[k].id).vector)
         /\ (k + 1 \in DOMAIN last.hits) =>
              (last.hits[k].distance <= last.hits[k + 1].distance)
    /\ (last.media_type \in MediaTypes) =>
         \A k \in DOMAIN last.hits :
           Record(last.hits[k].id).media_type = last.media_type

\* A search for videos like an ingested image skipped that image, the
\* nearest record, and returned the video.
C23_Witness ==
  /\ last.op = "find_similar"
  /\ last.result = "ok"
  /\ last.media_type = "video"
  /\ Len(last.hits) = 1
  /\ last.hits[1].distance > 0
  /\ \E i \in Rows :
       /\ assets[i].media_type = "image"
       /\ assets[i].image = last.text

\* The records ingested by add_image from the bytes the last search used as
\* its reference.
IngestedReference ==
  { i \in Rows : assets[i].media_type = "image" /\ assets[i].image = last.text }

Unfiltered == last.op = "find_similar" /\ last.result = "ok" /\ last.media_type = None

\* C24 as stated: an unfiltered find_similar on the bytes of an ingested
\* image returns the record of that image as its first hit, at distance 0.
C24_SimilarRanksSelfFirst ==
  Unfiltered =>
    \A i \in IngestedReference :
      /\ Len(last.hits) >= 1
      /\ last.hits[1].id = assets[i].id
      /\ last.hits[1].distance = 0

\* C24, amended: the first hit of an unfiltered find_similar on the bytes of
\* an ingested image x is at distance 0 and carries the embedding of x; it is
\* the record of x when no other record carries that embedding, and in any
\* case the record of x is among the hits when limit is at least the number
\* of records that carry it.
C24_SimilarRanksEqualFirst ==
  Unfiltered =>
    \A i \in IngestedReference :
      LET same == { j \in Rows : assets[j].vector = assets[i].vector }
      IN /\ Len(last.hits) >= 1
         /\ last.hits[1].distance = 0
         /\ Record(last.hits[1].id).vector = assets[i].vector
         /\ same = {i} => last.hits[1].id = assets[i].id
         /\ last.limit >= Cardinality(same) => assets[i].id \in HitIds

\* The reference was ingested second, after another image, and then rated;
\* the search returned it first, ahead of the other record.
C24_Witness ==
  /\ Unfiltered
  /\ Len(last.hits) = 2
  /\ Len(assets) = 2
  /\ assets[2].image = last.text
  /\ assets[2].quality_rating # NoInt
  /\ last.hits[1].id = assets[2].id
  /\ last.hits[1].distance = 0
  /\ last.hits[2].distance > 0

\* The ids a scan returned, as a set.
IdSet(ids) == { ids[k] : k \in DOMAIN ids }

\* C25: find_by_subject(s, media_type) returns exactly the records whose
\* subjects contain an element equal to s and, when a media type is given,
\* whose media_type is that type; a record whose subjects merely contain
\* longer or shorter strings than s is never returned.
C25_SubjectExactMembership ==
  last.op = "find_by_subject" =>
    /\ Len(last.ids) = Cardinality(IdSet(last.ids))
    /\ IdSet(last.ids) =
         { assets[i].id : i \in
             { j \in Rows :
                 /\ \E k \in DOMAIN assets[j].subjects :
                      assets[j].subjects[k] = last.subject
                 /\ (last.media_type \in MediaTypes) =>
                      (assets[j].media_type = last.media_type) } }

\* The ids of the records whose episode_assignments contain e.
AssignedTo(e) ==
  { assets[i].id : i \in { j \in Rows :
      \E k \in DOMAIN assets[j].episode_assignments :
        assets[j].episode_assignments[k] = e } }

AllIds == { assets[i].id : i \in Rows }

\* C26: find_for_episode(e, unassigned_only=false) returns exactly the
\* records whose episode_assignments contain e, and with unassigned_only=true
\* exactly those whose episode_assignments do not contain e, each once; in
\* every state the two results are disjoint and together cover every record.
C26_EpisodePartition ==
  /\ last.op = "find_for_episode" =>
       /\ Len(last.ids) = Cardinality(IdSet(last.ids))
       /\ IdSet(last.ids) = IF last.unassigned_only
                            THEN AllIds \ AssignedTo(last.episode[1])
                            ELSE AssignedTo(last.episode[1])
  /\ \A e \in EpisodeInputs :
       LET with == IdSet(find_for_episode(assets, e, FALSE))
           without == IdSet(find_for_episode(assets, e, TRUE))
       IN /\ with \cap without = {}
          /\ with \cup without = AllIds

\* A search for the records not assigned to an episode returned one of two
\* records; the other carries the episode, beside a second one.
C26_Witness ==
  /\ last.op = "find_for_episode"
  /\ last.unassigned_only
  /\ Len(assets) = 2
  /\ Len(last.ids) = 1
  /\ \E i \in Rows :
       /\ assets[i].id \notin IdSet(last.ids)
       /\ Len(assets[i].episode_assignments) = 2
       /\ assets[i].episode_assignments[2] = last.episode[1]

\* --------------------------------------------------------------------- backup
\* C27: backup_to_beta fails with FileNotFoundError (NotFound) and leaves the
\* destination as it was when the store directory does not exist; otherwise
\* it returns with the destination holding exactly the store's tables and
\* records, nothing else.  In both cases the store itself is unchanged.
C27_BackupCopiesOrFails ==
  [][last'.op \in {"backup_to_beta", "api_backup_to_beta"} =>
       /\ <<assets', table_names', projects', db_exists'>>
            = <<assets, table_names, projects, db_exists>>
       /\ ~db_exists =>
            /\ last'.op = "backup_to_beta" =>
                 ErrorKind(last'.result) = "NotFound"
            /\ last'.result # "ok"
            /\ backup' = backup
       /\ db_exists =>
            /\ last'.result = "ok"
            /\ backup' = <<[table_names |-> table_names, assets |-> assets,
                            projects |-> projects]>>]_vars

\* A backup was attempted after the store directory had gone; the copy of
\* two records made before is still at the destination.
C27_Witness ==
  /\ last.op = "backup_to_beta"
  /\ ErrorKind(last.result) = "NotFound"
  /\ ~db_exists
  /\ backup # NoDir
  /\ Len(backup[1].assets) = 2

\* ------------------------------------------------------------------ filename
\* The base filenames callers supply, as paths to add_image / add_video or as
\* the request field filename.
SuppliedNames == {PngName, Mp4Name, NoSuffixName, JpgName}

\* C28: the stored filename of every record is the base filename its caller
\* supplied, whether the record was ingested by add_image / add_video or
\* through the API, and no step changes the filename of a record.
C28_FilenameIsSupplied ==
  /\ [](\A i \in Rows : assets[i].filename \in SuppliedNames)
  /\ [][\A i \in Rows :
          /\ i <= Len(assets')
          /\ assets'[i].filename = assets[i].filename]_vars

\* ------------------------------------------- a rating concurrent to an assign
\* C29: a rate_asset call and an assign_to_episode call on the same record
\* do not lose each other's update, wherever the rating falls between the
\* read and the write of the assignment.  The rating writes the rating and
\* the notes and leaves the episodes of the record as they are; the write of
\* the assignment leaves the rating and the notes as they are, and after it
\* the episodes contain the assigned one.
C29_RateAndAssignKeepBoth ==
  [][/\ (last'.op = "rate_asset" /\ last'.result = "ok" /\ pending' = pending) =>
          \A i \in Rows :
            assets[i].id = last'.id[1] =>
              /\ assets'[i].quality_rating = last'.rating
              /\ assets'[i].quality_notes = last'.notes
              /\ assets'[i].episode_assignments = assets[i].episode_assignments
     /\ (pending[1].pc = "read" /\ pending'[1].pc = "idle") =>
          \A i \in Rows :
            assets[i].id = pending[1].id =>
              /\ assets'[i].quality_rating = assets[i].quality_rating
              /\ assets'[i].quality_notes = assets[i].quality_notes
              /\ \E k \in DOMAIN assets'[i].episode_assignments :
                   assets'[i].episode_assignments[k] = pending[1].episode]_vars

\* ------------------------------------------------- concurrent initialisation
\* C30: schema initialisation never discards ingested records.  Whatever the
\* interleaving of two constructors on a fresh location with the ingestions
\* of the one that finished first, every record of the assets relation is
\* still there after each step: no table creation replaces a relation that
\* holds a record.
C30_InitNeverDiscards ==
  [][\A i \in Rows :
       \E j \in 1..Len(assets') : assets'[j].id = assets[i].id]_vars

====
